---- MODULE Spec2Model ----
(***************************************************************************)
(* The diary data-access layer: the entries table of the SQLite and the    *)
(* Postgres engine, their schema defaults and update triggers, and the     *)
(* CRUD operations of src/db/sqlite.rs and src/db/postgres.rs.             *)
(***************************************************************************)
EXTENDS Integers, Sequences, FiniteSets, TLC

\* Bounds of the model.
MaxTime == 4       \* the clock stops here (in clock ticks)
MaxStep == 2       \* most ticks that pass between two operations
MaxId == 2         \* largest id the engines assign and callers pass
TicksPerSec == 2   \* clock ticks per second: datetime('now') has second resolution

Engines == {"sqlite", "postgres"}
Contents == {<<"a">>, <<"b">>}
ArgIds == 1..MaxId

\* Option<T>: None is the empty tuple, Some(x) the one-element tuple.
None == << >>
Some(x) == <<x>>
OptionOf(S) == {None} \cup {Some(x) : x \in S}

\* anyhow::Result<Entry>: the error kind, or the row.
Ok(e) == [kind |-> "Ok", entry |-> Some(e)]
Err(k) == [kind |-> k, entry |-> None]

Max(S) == CHOOSE x \in S : \A y \in S : y <= x

VARIABLES
    engine,          \* which engine DiaryDB::new selected
    entries,         \* the rows of table entries
    entries_id_seq,  \* Postgres: last value of the BIGSERIAL sequence
    now,             \* the database server's clock
    last,            \* the last call: operation, arguments and what it returned
    created,         \* id -> the Entry the most recent create_entry returned for it
    database,        \* the physical database: whether it exists, its schema objects
    peer             \* the Postgres store when both engines are run side by side

vars == <<engine, entries, entries_id_seq, now, last, created, database, peer>>

----------------------------------------------------------------------------
\* Clock readings of the two engines.

\* SQLite datetime('now'): the current time, truncated to the second.
datetime_now(t) == (t \div TicksPerSec) * TicksPerSec

\* Postgres CURRENT_TIMESTAMP: the current time at full resolution.
CURRENT_TIMESTAMP(t) == t

----------------------------------------------------------------------------
\* INSERT INTO entries (content, pinned) VALUES($1, $2) RETURNING *

\* SQLite INTEGER PRIMARY KEY without AUTOINCREMENT: one more than the largest
\* rowid in the table, 1 for an empty table.
sqlite_rowid(tbl) == IF tbl = {} THEN 1 ELSE Max({r.id : r \in tbl}) + 1

\* Mutant: created_at keeps the sub-second part that updated_at drops.
sqlite_insert_row_subsec(tbl, content, pinned, t) ==
    [id |-> sqlite_rowid(tbl), content |-> content,
     created_at |-> t, updated_at |-> Some(datetime_now(t)),
     pinned |-> pinned]

\* The row SQLite inserts: both created_at and updated_at DEFAULT (datetime('now')).
sqlite_insert_row(tbl, content, pinned, t) ==
    [id |-> sqlite_rowid(tbl), content |-> content,
     created_at |-> datetime_now(t), updated_at |-> Some(datetime_now(t)),
     pinned |-> pinned]

\* The row Postgres inserts: id from the sequence, created_at DEFAULT
\* CURRENT_TIMESTAMP, updated_at without default (NULL).
postgres_insert_row(seq, content, pinned, t) ==
    [id |-> seq + 1, content |-> content,
     created_at |-> CURRENT_TIMESTAMP(t), updated_at |-> None,
     pinned |-> pinned]

\* Mutant: INSERT OR REPLACE under the id of the first row.
create_entry_replaces(eng, tbl, seq, content, pinned, t) ==
    LET row == [id |-> 1, content |-> content, created_at |-> t, updated_at |-> None,
                pinned |-> pinned]
    IN [res |-> Ok(row), tbl |-> {r \in tbl : r.id # 1} \cup {row}, seq |-> seq]

create_entry(eng, tbl, seq, content, pinned, t) ==
    LET row == IF eng = "sqlite" THEN sqlite_insert_row(tbl, content, pinned, t)
               ELSE postgres_insert_row(seq, content, pinned, t)
    IN [res |-> Ok(row), tbl |-> tbl \cup {row},
        seq |-> IF eng = "sqlite" THEN seq ELSE seq + 1]

----------------------------------------------------------------------------
\* SELECT 1 FROM entries WHERE id = $1
check_if_entry_exists(tbl, id) == \E r \in tbl : r.id = id

\* SELECT * FROM entries WHERE id = $1, fetch_one: RowNotFound without a row.
read_entry(tbl, id) ==
    IF \E r \in tbl : r.id = id
    THEN Ok(CHOOSE r \in tbl : r.id = id)
    ELSE Err("NotFound")

----------------------------------------------------------------------------
\* UPDATE entries SET ... WHERE id = $1 RETURNING *

\* Mutant: an unsupplied pinned is written as the column default.
set_clause_defaults(row, content, pinned) ==
    [row EXCEPT !.content = IF content = None THEN @ ELSE content[1],
                !.pinned = IF pinned = None THEN FALSE ELSE pinned[1]]

\* The SET clause lists content and pinned only when they are supplied.
set_clause(row, content, pinned) ==
    [row EXCEPT !.content = IF content = None THEN @ ELSE content[1],
                !.pinned = IF pinned = None THEN @ ELSE pinned[1]]

\* Mutant: the trigger stamps created_at as well.
update_entries_updated_at_both(tbl, old_id, t) ==
    {IF r.id = old_id
     THEN [r EXCEPT !.updated_at = Some(datetime_now(t)), !.created_at = datetime_now(t)]
     ELSE r : r \in tbl}

\* SQLite trigger update_entries_updated_at, AFTER UPDATE FOR EACH ROW:
\* UPDATE entries SET updated_at = datetime('now') WHERE id = OLD.id
update_entries_updated_at(tbl, old_id, t) ==
    {IF r.id = old_id THEN [r EXCEPT !.updated_at = Some(datetime_now(t))] ELSE r
        : r \in tbl}

\* Mutant: the trigger function stamps NEW whether or not it differs from OLD.
update_updated_at_column_unconditional(old, new, t) ==
    [new EXCEPT !.updated_at = Some(CURRENT_TIMESTAMP(t))]

\* Mutant: the trigger function returns NEW without stamping it.
update_updated_at_column_unstamped(old, new, t) == new

\* Postgres trigger function update_updated_at_column, BEFORE UPDATE FOR EACH ROW.
update_updated_at_column(old, new, t) ==
    IF new # old THEN [new EXCEPT !.updated_at = Some(CURRENT_TIMESTAMP(t))]
    ELSE new

\* SQLite: RETURNING emits the row as the statement wrote it; the AFTER
\* trigger runs afterwards and its changes are not in the returned row.
sqlite_update(tbl, id, content, pinned, t) ==
    LET stmt == {IF r.id = id THEN set_clause(r, content, pinned) ELSE r : r \in tbl}
        returning == CHOOSE r \in stmt : r.id = id
    IN [res |-> Ok(returning), tbl |-> update_entries_updated_at(stmt, id, t)]

\* Postgres: the BEFORE trigger rewrites NEW, which is stored and returned.
postgres_update(tbl, id, content, pinned, t) ==
    LET old == CHOOSE r \in tbl : r.id = id
        new == update_updated_at_column(old, set_clause(old, content, pinned), t)
    IN [res |-> Ok(new), tbl |-> (tbl \ {old}) \cup {new}]

\* Mutant: an update without fields still fires the trigger before it is rejected.
update_entry_touches_on_error(eng, tbl, id, content, pinned, t) ==
    IF ~check_if_entry_exists(tbl, id) THEN [res |-> Err("NotFound"), tbl |-> tbl]
    ELSE IF content = None /\ pinned = None
         THEN [res |-> Err("InvalidArgument"),
               tbl |-> {IF r.id = id THEN [r EXCEPT !.updated_at = Some(t)] ELSE r : r \in tbl}]
    ELSE IF eng = "sqlite" THEN sqlite_update(tbl, id, content, pinned, t)
    ELSE postgres_update(tbl, id, content, pinned, t)

\* Mutant: the supplied fields are checked before the existence of the row.
update_entry_fields_first(eng, tbl, id, content, pinned, t) ==
    IF content = None /\ pinned = None
    THEN [res |-> Err("InvalidArgument"), tbl |-> tbl]
    ELSE IF ~check_if_entry_exists(tbl, id) THEN [res |-> Err("NotFound"), tbl |-> tbl]
    ELSE IF eng = "sqlite" THEN sqlite_update(tbl, id, content, pinned, t)
    ELSE postgres_update(tbl, id, content, pinned, t)

\* The existence check comes first, then the check of the supplied fields.
update_entry(eng, tbl, id, content, pinned, t) ==
    IF ~check_if_entry_exists(tbl, id) THEN [res |-> Err("NotFound"), tbl |-> tbl]
    ELSE IF content = None /\ pinned = None
         THEN [res |-> Err("InvalidArgument"), tbl |-> tbl]
    ELSE IF eng = "sqlite" THEN sqlite_update(tbl, id, content, pinned, t)
    ELSE postgres_update(tbl, id, content, pinned, t)

----------------------------------------------------------------------------
\* DELETE FROM entries WHERE id = $1
\* Mutant: no existence check, zero rows affected counts as success.
delete_entry_unchecked(tbl, id) ==
    [res |-> [kind |-> "Ok", entry |-> None], tbl |-> {r \in tbl : r.id # id}]

\* Mutant: the DELETE has no WHERE clause.
delete_entry_all_rows(tbl, id) ==
    IF ~check_if_entry_exists(tbl, id) THEN [res |-> Err("NotFound"), tbl |-> tbl]
    ELSE [res |-> [kind |-> "Ok", entry |-> None], tbl |-> {}]

\* The existence check, then the DELETE of the one row.
delete_entry(tbl, id) ==
    IF ~check_if_entry_exists(tbl, id) THEN [res |-> Err("NotFound"), tbl |-> tbl]
    ELSE [res |-> [kind |-> "Ok", entry |-> None], tbl |-> {r \in tbl : r.id # id}]

----------------------------------------------------------------------------
\* The state machine: one engine, one call at a time.

Call(op, id, content, pinned, res) ==
    [op |-> op, id |-> id, content |-> content, pinned |-> pinned,
     kind |-> res.kind, entry |-> res.entry]

\* The schema objects the schema script of an engine creates.
SchemaObjects(eng) ==
    IF eng = "sqlite" THEN {"entries", "update_entries_updated_at"}
    ELSE {"entries", "update_updated_at_column", "update_entries_updated_at"}

\* The database DiaryDB::new leaves behind on a fresh target.
Constructed(eng) == [exists |-> TRUE, objects |-> SchemaObjects(eng)]

Init ==
    /\ engine \in Engines
    /\ entries = {}
    /\ entries_id_seq = 0
    /\ now = 0
    /\ last = Call("new", None, None, None, [kind |-> "Ok", entry |-> None])
    /\ created = << >>
    /\ database = Constructed(engine)
    /\ peer = None

\* Time passes between two calls.
Elapse(d) == now + d <= MaxTime /\ now' = now + d

CreateEntry(content, pinned, d) ==
    /\ Elapse(d)
    /\ LET r == create_entry(engine, entries, entries_id_seq, content, pinned, now')
       IN /\ r.res.entry[1].id <= MaxId
          /\ entries' = r.tbl
          /\ entries_id_seq' = r.seq
          /\ last' = Call("create", None, Some(content), Some(pinned), r.res)
          /\ created' = [i \in DOMAIN created \cup {r.res.entry[1].id} |->
                            IF i = r.res.entry[1].id THEN r.res.entry[1] ELSE created[i]]
    /\ UNCHANGED <<engine, database, peer>>

ReadEntry(id, d) ==
    /\ Elapse(d)
    /\ last' = Call("read_one", Some(id), None, None, read_entry(entries, id))
    /\ UNCHANGED <<engine, entries, entries_id_seq, created, database, peer>>

CheckIfEntryExists(id, d) ==
    /\ Elapse(d)
    /\ last' = Call("exists", Some(id), None, None,
                    [kind |-> "Ok", entry |-> Some(check_if_entry_exists(entries, id))])
    /\ UNCHANGED <<engine, entries, entries_id_seq, created, database, peer>>

UpdateEntry(id, content, pinned, d) ==
    /\ Elapse(d)
    /\ LET r == update_entry(engine, entries, id, content, pinned, now')
       IN /\ entries' = r.tbl
          /\ last' = Call("update", Some(id), content, pinned, r.res)
    /\ UNCHANGED <<engine, entries_id_seq, created, database, peer>>

DeleteEntry(id, d) ==
    /\ Elapse(d)
    /\ LET r == delete_entry(entries, id)
       IN /\ entries' = r.tbl
          /\ last' = Call("delete", Some(id), None, None, r.res)
    /\ UNCHANGED <<engine, entries_id_seq, created, database, peer>>

Next ==
    \E d \in 1..MaxStep :
        \/ \E c \in Contents, p \in BOOLEAN : CreateEntry(c, p, d)
        \/ \E id \in ArgIds : ReadEntry(id, d)
        \/ \E id \in ArgIds : CheckIfEntryExists(id, d)
        \/ \E id \in ArgIds, c \in OptionOf(Contents), p \in OptionOf(BOOLEAN) :
              UpdateEntry(id, c, p, d)
        \/ \E id \in ArgIds : DeleteEntry(id, d)

Spec == Init /\ [][Next]_vars

TypeOK ==
    /\ engine \in Engines
    /\ now \in 0..MaxTime
    /\ entries_id_seq \in 0..MaxId
    /\ \A r \in entries : r.id \in 1..MaxId /\ r.content \in Contents

----------------------------------------------------------------------------
\* What the last call was and what it returned.
Returned(op) == last.op = op /\ last.kind = "Ok"
Returned_(op) == last'.op = op /\ last'.kind = "Ok"
RowOf(tbl, id) == CHOOSE r \in tbl : r.id = id

\* C1: create followed by read_one of the returned id returns an Entry with the
\* same content, the same pinned, a created_at that is set, and updated_at absent.
C1_CreateThenRead ==
    Returned("create") =>
        LET r == read_entry(entries, last.entry[1].id)
        IN /\ r.kind = "Ok"
           /\ r.entry[1].content = last.content[1]
           /\ r.entry[1].pinned = last.pinned[1]
           /\ r.entry[1].created_at \in 0..MaxTime
           /\ r.entry[1].updated_at = None

\* C2: read_one, update and delete of an id that is not in the store fail with
\* NotFound, whatever the other arguments, and leave the store unchanged.
C2_MissingIdNotFound ==
    [][(/\ last'.op \in {"read_one", "update", "delete"}
        /\ ~check_if_entry_exists(entries, last'.id[1]))
       => (last'.kind = "NotFound" /\ entries' = entries)]_vars

C2_Witness ==
    /\ last.op = "update" /\ last.kind = "NotFound"
    /\ last.content # None
    /\ entries # {}

\* C3 as stated: update with content and pinned both absent fails with
\* InvalidArgument for every id, present or not, and changes no row.
C3_NoFieldsAlwaysInvalidArgument ==
    [][(last'.op = "update" /\ last'.content = None /\ last'.pinned = None)
       => (last'.kind = "InvalidArgument" /\ entries' = entries)]_vars

\* C3 amended: update with content and pinned both absent changes no row and
\* fails with InvalidArgument when the id exists, with NotFound when it does not.
C3_NoFieldsRejected ==
    [][(last'.op = "update" /\ last'.content = None /\ last'.pinned = None)
       => /\ entries' = entries
          /\ last'.kind = IF check_if_entry_exists(entries, last'.id[1])
                          THEN "InvalidArgument" ELSE "NotFound"]_vars

C3_Witness ==
    /\ last.op = "update" /\ last.content = None /\ last.pinned = None
    /\ last.kind = "InvalidArgument"

\* C4: a successful update changes only the supplied fields of the row with that
\* id: an unsupplied content or pinned, the id and created_at keep their values,
\* a supplied field takes the supplied value, and every other row is unchanged.
C4_UpdateFrame ==
    [][Returned_("update") =>
        LET id == last'.id[1]
            old == RowOf(entries, id)
            new == RowOf(entries', id)
        IN /\ new.content = IF last'.content = None THEN old.content ELSE last'.content[1]
           /\ new.pinned = IF last'.pinned = None THEN old.pinned ELSE last'.pinned[1]
           /\ new.id = old.id
           /\ new.created_at = old.created_at
           /\ {r \in entries' : r.id # id} = {r \in entries : r.id # id}
           /\ Cardinality(entries') = Cardinality(entries)]_vars

C4_Witness ==
    /\ Returned("update") /\ last.content # None /\ last.pinned = None
    /\ \E r \in entries : r.id = last.id[1] /\ r.pinned
    /\ Cardinality(entries) = 2

\* C5 as stated: after a successful update(id, content=Some(X)), for any X and
\* any time of the update, read_one(id).content = X, updated_at is present and
\* updated_at > created_at.
C5_UpdatedAtAfterCreatedAt ==
    (Returned("update") /\ last.content # None) =>
        LET e == read_entry(entries, last.id[1]).entry[1]
        IN /\ e.content = last.content[1]
           /\ e.updated_at # None
           /\ e.updated_at[1] > e.created_at

\* C5 amended: after a successful update(id, content=Some(X)),
\* read_one(id).content = X; if the engine is SQLite or the update changed a
\* column value, updated_at is present and updated_at >= created_at; a Postgres
\* update that changes no column value leaves updated_at as it was.
C5_UpdatedAtNotBeforeCreatedAt ==
    [][(Returned_("update") /\ last'.content # None) =>
        LET id == last'.id[1]
            old == RowOf(entries, id)
            e == read_entry(entries', id).entry[1]
        IN /\ e.content = last'.content[1]
           /\ IF engine = "sqlite" \/ set_clause(old, last'.content, last'.pinned) # old
              THEN e.updated_at # None /\ e.updated_at[1] >= e.created_at
              ELSE e.updated_at = old.updated_at]_vars

C5_Witness ==
    /\ Returned("update") /\ last.content # None
    /\ engine = "postgres"
    /\ \E r \in entries : /\ r.id = last.id[1]
                          /\ r.updated_at # None
                          /\ r.updated_at[1] > r.created_at

\* C6: the Entry a successful update returns equals, field by field and
\* updated_at included, the Entry of a read_one(id) made right after it.
C6_UpdateReturnsStoredRow ==
    Returned("update") => last.entry[1] = read_entry(entries, last.id[1]).entry[1]

\* C7: delete of an existing id succeeds, a following exists(id) is false, a
\* second delete(id) fails with NotFound, and every other row is unchanged.
C7_DeleteExisting ==
    [][(last'.op = "delete" /\ check_if_entry_exists(entries, last'.id[1])) =>
        LET id == last'.id[1]
        IN /\ last'.kind = "Ok"
           /\ ~check_if_entry_exists(entries', id)
           /\ delete_entry(entries', id).res.kind = "NotFound"
           /\ {r \in entries' : r.id # id} = {r \in entries : r.id # id}]_vars

C7_Witness == Returned("delete") /\ entries # {}

\* C8: the id a create returns differs from every id an earlier create
\* returned, also from the ids of rows deleted since.
C8_IdNeverReused ==
    [][Returned_("create") => last'.entry[1].id \notin DOMAIN created]_vars

\* C9: every row whose updated_at is present has created_at <= updated_at.
C9_CreatedNotAfterUpdated ==
    \A r \in entries : r.updated_at # None => r.created_at <= r.updated_at[1]

C9_Witness ==
    /\ Returned("update")
    /\ \E r \in entries : r.updated_at # None /\ r.created_at < r.updated_at[1]
    /\ \E r \in entries : r.updated_at # None /\ r.created_at = r.updated_at[1]

\* C10: as long as an entry is in the store, read_one(id) returns the id and
\* the created_at that the create of the entry returned.
C10_IdAndCreatedAtImmutable ==
    \A r \in entries :
        /\ r.id \in DOMAIN created
        /\ LET e == read_entry(entries, r.id).entry[1]
           IN e.id = created[r.id].id /\ e.created_at = created[r.id].created_at

C10_Witness ==
    /\ Returned("update")
    /\ \E r \in entries : /\ r.id = last.id[1]
                          /\ r.content # created[r.id].content
                          /\ r.pinned # created[r.id].pinned
                          /\ r.updated_at # Some(created[r.id].created_at)
    /\ Cardinality(entries) = 2

----------------------------------------------------------------------------
\* read_entries: SELECT * FROM entries [WHERE ...] ORDER BY ... LIMIT .. OFFSET ..

\* Bounds of the query model.
I64Bits == 8       \* width at which the i64 arguments are modelled
QMaxRows == 1      \* most rows of a queried table, the sample entries apart
QMaxPage == 2      \* largest page and per_page of the calls, the extreme ones apart

MaxI64 == 2^(I64Bits - 1) - 1
MinI64 == 0 - 2^(I64Bits - 1)
\* Two's complement wrap of an i64 result (overflow checks off).
wrapping(x) == ((x - MinI64) % 2^I64Bits) + MinI64

DefaultPage == 1
DefaultPerPage == 10
SortOrder == {"ASC", "DESC"}

unwrap_or(opt, dflt) == IF opt = None THEN dflt ELSE opt[1]

UpperCase == <<"A", "B", "C", "D", "E", "F", "G", "H", "I", "J", "K", "L", "M", "N", "O", "P", "Q", "R", "S", "T", "U", "V", "W", "X", "Y", "Z">>
LowerCase == <<"a", "b", "c", "d", "e", "f", "g", "h", "i", "j", "k", "l", "m", "n", "o", "p", "q", "r", "s", "t", "u", "v", "w", "x", "y", "z">>
\* Case folding of the ASCII letters, as LIKE (SQLite) and ILIKE do it.
lower(c) ==
    IF \E i \in 1..26 : UpperCase[i] = c
    THEN LowerCase[CHOOSE i \in 1..26 : UpperCase[i] = c]
    ELSE c

\* Mutant: the match compares the characters as they are.
RECURSIVE LIKE_case_sensitive(_, _)
LIKE_case_sensitive(pat, txt) ==
    IF pat = << >> THEN txt = << >>
    ELSE IF Head(pat) = "%"
         THEN LIKE_case_sensitive(Tail(pat), txt)
              \/ (txt # << >> /\ LIKE_case_sensitive(pat, Tail(txt)))
    ELSE /\ txt # << >>
         /\ (Head(pat) = "_" \/ Head(pat) = Head(txt))
         /\ LIKE_case_sensitive(Tail(pat), Tail(txt))

\* The pattern match of both engines on ASCII text: '%' matches any run of
\* characters, '_' any one character, a letter matches in either case.
RECURSIVE LIKE(_, _)
LIKE(pat, txt) ==
    IF pat = << >> THEN txt = << >>
    ELSE IF Head(pat) = "%"
         THEN LIKE(Tail(pat), txt) \/ (txt # << >> /\ LIKE(pat, Tail(txt)))
    ELSE /\ txt # << >>
         /\ (Head(pat) = "_" \/ lower(Head(pat)) = lower(Head(txt)))
         /\ LIKE(Tail(pat), Tail(txt))

\* format!("%{}%", substr): the value goes into the pattern unescaped.
pattern(substr) == <<"%">> \o substr \o <<"%">>

\* Mutant: only the substring condition reaches the WHERE clause.
where_clause_last_condition(row, pinned, substring) ==
    IF substring # None THEN LIKE(pattern(substring[1]), row.content)
    ELSE (pinned = None \/ row.pinned = pinned[1])

\* The WHERE clause: the conditions that are present, joined by AND.
where_clause(row, pinned, substring) ==
    /\ (pinned = None \/ row.pinned = pinned[1])
    /\ (substring = None \/ LIKE(pattern(substring[1]), row.content))

\* Mutant: ORDER BY created_at {0}, id ASC.
comes_before_id_asc(a, b, order) ==
    IF order = "ASC"
    THEN a.created_at < b.created_at \/ (a.created_at = b.created_at /\ a.id < b.id)
    ELSE a.created_at > b.created_at \/ (a.created_at = b.created_at /\ a.id < b.id)

\* ORDER BY created_at {0}, id {0}
comes_before(a, b, order) ==
    IF order = "ASC"
    THEN a.created_at < b.created_at \/ (a.created_at = b.created_at /\ a.id < b.id)
    ELSE a.created_at > b.created_at \/ (a.created_at = b.created_at /\ a.id > b.id)

RECURSIVE order_by(_, _)
order_by(rows, order) ==
    IF rows = {} THEN << >>
    ELSE LET first == CHOOSE r \in rows : \A o \in rows \ {r} : comes_before(r, o, order)
         IN <<first>> \o order_by(rows \ {first}, order)

Min(a, b) == IF a <= b THEN a ELSE b

\* LIMIT limit OFFSET offset, for limit >= 1 and offset >= 0.
limit_offset(rows, limit, offset) ==
    SubSeq(rows, offset + 1, Min(offset + limit, Len(rows)))

\* What read_entries returns: the error kind or the rows, and the LIMIT and
\* OFFSET values it bound, if it got as far as the query.
QueryResult(kind, rows, bound) == [kind |-> kind, rows |-> rows, bound |-> bound]

\* fetch_all of the built query. SQLite reads a negative OFFSET as 0, Postgres
\* rejects it ("OFFSET must not be negative").
fetch_all(eng, tbl, order, pinned, substring, per_page, offset) ==
    LET sorted == order_by({r \in tbl : where_clause(r, pinned, substring)}, order)
        bound == Some([limit |-> per_page, offset |-> offset])
    IN IF offset < 0 /\ eng = "postgres" THEN QueryResult("Persistence", << >>, bound)
       ELSE QueryResult("Ok", limit_offset(sorted, per_page, IF offset < 0 THEN 0 ELSE offset),
                        bound)

\* read_entries. (page - 1) * per_page is an i64 product: with overflow checks
\* (debug build) an overflow panics, without them (release build) it wraps.
read_entries(eng, tbl, page, per_page, sort, pinned, substring, overflow_checks) ==
    LET page_ == unwrap_or(page, DefaultPage)
        per_page_ == unwrap_or(per_page, DefaultPerPage)
        product == (page_ - 1) * per_page_
    IN IF page_ < 1 \/ per_page_ < 1 THEN QueryResult("InvalidArgument", << >>, None)
       ELSE IF product > MaxI64 /\ overflow_checks THEN QueryResult("Panic", << >>, None)
       ELSE fetch_all(eng, tbl, unwrap_or(sort, "DESC"), pinned, substring,
                      per_page_, wrapping(product))

----------------------------------------------------------------------------
\* One read_entries call on a table that creates have filled.

QContents == {<<"A", "b">>, <<"b", "a">>}
QSubstrings == {<<"a", "B">>, <<"_">>, <<"%">>, <<"S", "e", "c", "o", "n", "d">>}
\* Ticks between two creates: within the same second, or a second later.
QSteps == {1, TicksPerSec}

\* The store after a sequence of create_entry calls <<content, pinned, ticks>>.
RECURSIVE after_creates(_, _)
after_creates(eng, calls) ==
    IF calls = << >> THEN [tbl |-> {}, seq |-> 0, t |-> 0]
    ELSE LET n == Len(calls)
             before == after_creates(eng, SubSeq(calls, 1, n - 1))
             t == before.t + calls[n][3]
             r == create_entry(eng, before.tbl, before.seq, calls[n][1], calls[n][2], t)
         IN [tbl |-> r.tbl, seq |-> r.seq, t |-> t]

\* The sample entries of create_sample_entries.
SampleCalls ==
    << <<<<"F", "i", "r", "s", "t", " ", "e", "n", "t", "r", "y">>, TRUE, 1>>,
       <<<<"S", "e", "c", "o", "n", "d", " ", "e", "n", "t", "r", "y">>, FALSE, 1>>,
       <<<<"T", "h", "i", "r", "d", " ", "p", "i", "n", "n", "e", "d", " ", "e", "n", "t", "r", "y">>, TRUE, 1>> >>

QStores(eng) ==
    {after_creates(eng, calls) :
        calls \in UNION {[1..n -> QContents \X BOOLEAN \X QSteps] : n \in 0..QMaxRows}}
    \cup {after_creates(eng, SampleCalls)}

\* The arguments of the call: small pages with every sort and filter, and
\* pages at the ends of the i64 range.
QCalls ==
    (OptionOf(0..QMaxPage) \X OptionOf(0..QMaxPage) \X OptionOf(SortOrder)
        \X OptionOf(BOOLEAN) \X OptionOf(QSubstrings))
    \cup ({Some(MinI64), Some(3), Some(MaxI64)} \X {Some(MinI64), Some(1), Some(MaxI64)}
        \X {None} \X {None} \X {None})

InitQuery ==
    /\ engine \in Engines
    /\ \E st \in QStores(engine) :
          entries = st.tbl /\ entries_id_seq = st.seq /\ now = st.t
    /\ last = Call("new", None, None, None, [kind |-> "Ok", entry |-> None])
    /\ created = << >>
    /\ database = Constructed(engine)
    /\ peer = None

\* The process makes one call and exits.
ReadEntries(page, per_page, sort, pinned, substring, overflow_checks) ==
    /\ last.op = "new"
    /\ LET r == read_entries(engine, entries, page, per_page, sort, pinned, substring,
                             overflow_checks)
       IN last' = [op |-> "read_many", page |-> page, per_page |-> per_page,
                   sort |-> sort, pinned |-> pinned, substring |-> substring,
                   kind |-> r.kind, rows |-> r.rows, bound |-> r.bound]
    /\ UNCHANGED <<engine, entries, entries_id_seq, now, created, database, peer>>

NextQuery ==
    \E c \in QCalls, overflow_checks \in BOOLEAN :
        ReadEntries(c[1], c[2], c[3], c[4], c[5], overflow_checks)

SpecQuery == InitQuery /\ [][NextQuery]_vars

----------------------------------------------------------------------------
\* Claims about read_entries, on the states of SpecQuery.

ReadMany == last.op = "read_many"
EffectivePage == IF last.page = None THEN 1 ELSE last.page[1]
EffectivePerPage == IF last.per_page = None THEN 10 ELSE last.per_page[1]
EffectiveSort == IF last.sort = None THEN "DESC" ELSE last.sort[1]
\* The call asks for the default page, which holds every row of the tables here.
WholeTable == last.page = None /\ last.per_page = None
RowSet(rows) == {rows[i] : i \in 1..Len(rows)}
\* txt contains s as a substring, letters compared without regard to case.
Contains(txt, s) ==
    \E i \in 0..(Len(txt) - Len(s)) : \A k \in 1..Len(s) : lower(txt[i + k]) = lower(s[k])
HasWildcard(s) == \E k \in 1..Len(s) : s[k] \in {"%", "_"}

\* C11: read_many uses page 1 and per_page 10 for absent arguments; an
\* effective page or per_page below 1 fails with InvalidArgument before any
\* query, and every other call does not fail on its arguments.
C11_DefaultsAndValidation ==
    ReadMany =>
        IF EffectivePage < 1 \/ EffectivePerPage < 1
        THEN last.kind = "InvalidArgument" /\ last.bound = None
        ELSE /\ last.kind = "Ok"
             /\ last.bound # None
             /\ last.bound[1].limit = EffectivePerPage

\* C12: for page >= 1 and per_page >= 1 read_many returns exactly the rows at
\* positions (page-1)*per_page .. (page-1)*per_page + per_page - 1 of the
\* filtered, sorted sequence, and the empty sequence beyond its end.
C12_PageOfFilteredSorted ==
    (ReadMany /\ EffectivePage >= 1 /\ EffectivePerPage >= 1) =>
        LET full == order_by({r \in entries : where_clause(r, last.pinned, last.substring)},
                             EffectiveSort)
            skip == (EffectivePage - 1) * EffectivePerPage
            rest == Len(full) - skip
            k == IF rest <= 0 THEN 0 ELSE Min(EffectivePerPage, rest)
        IN /\ last.kind = "Ok"
           /\ last.rows = [i \in 1..k |-> full[skip + i]]

\* C13: the rows come in non-decreasing (created_at, id) order for sort ASC, in
\* non-increasing order for DESC, and an absent sort is DESC.
C13_Sorted ==
    (ReadMany /\ last.kind = "Ok") =>
        \A i, j \in 1..Len(last.rows) : i < j =>
            LET a == last.rows[i]
                b == last.rows[j]
            IN IF EffectiveSort = "ASC"
               THEN a.created_at < b.created_at
                    \/ (a.created_at = b.created_at /\ a.id <= b.id)
               ELSE a.created_at > b.created_at
                    \/ (a.created_at = b.created_at /\ a.id >= b.id)

C13_Witness ==
    /\ ReadMany /\ last.kind = "Ok" /\ last.sort = None
    /\ Len(last.rows) = 3
    /\ last.rows[1].created_at = last.rows[2].created_at
    /\ last.rows[1].id > last.rows[2].id
    /\ last.rows[2].created_at > last.rows[3].created_at

C15_SubstringIffContains ==
    (ReadMany /\ last.kind = "Ok" /\ WholeTable /\ last.substring # None) =>
        RowSet(last.rows) =
            {r \in entries : /\ (last.pinned = None \/ r.pinned = last.pinned[1])
                             /\ Contains(r.content, last.substring[1])}

\* C15 amended: for a substring S of ASCII characters without '%' and '_'
\* read_many returns a row if and only if its content contains S, compared
\* case-insensitively; '%' and '_' in S act as LIKE wildcards, so every row that
\* contains S is returned but others are too: S = '%' returns every row and
\* S = '_' every row with non-empty content.
C15_SubstringIffContainsUnlessWildcard ==
    (ReadMany /\ last.kind = "Ok" /\ WholeTable /\ last.substring # None) =>
        LET S == last.substring[1]
            pin(r) == last.pinned = None \/ r.pinned = last.pinned[1]
        IN /\ ~HasWildcard(S) =>
                RowSet(last.rows) = {r \in entries : pin(r) /\ Contains(r.content, S)}
           /\ {r \in entries : pin(r) /\ Contains(r.content, S)} \subseteq RowSet(last.rows)
           /\ S = <<"%">> => RowSet(last.rows) = {r \in entries : pin(r)}
           /\ S = <<"_">> => RowSet(last.rows) = {r \in entries : pin(r) /\ r.content # << >>}

C15_Witness ==
    /\ ReadMany /\ last.kind = "Ok" /\ WholeTable
    /\ last.substring = Some(<<"a", "B">>)
    /\ Len(last.rows) = 1
    /\ last.rows[1].content = <<"A", "b">>

\* C20: read_many never panics, whatever page and per_page in the i64 range,
\* and for page >= 1 and per_page >= 1 the offset it binds is the mathematical
\* value (page-1)*per_page.
C20_NoPanicNoOverflow ==
    ReadMany =>
        /\ last.kind # "Panic"
        /\ (EffectivePage >= 1 /\ EffectivePerPage >= 1) =>
              /\ last.bound # None
              /\ last.bound[1].offset = (EffectivePage - 1) * EffectivePerPage

----------------------------------------------------------------------------
\* DiaryDB::new: the engine for a connection URL, and its construction.

starts_with(s, prefix) == Len(s) >= Len(prefix) /\ SubSeq(s, 1, Len(prefix)) = prefix

\* str::replace: every non-overlapping occurrence of from, left to right.
RECURSIVE replace(_, _, _)
replace(s, from, to) ==
    IF Len(s) < Len(from) THEN s
    ELSE IF SubSeq(s, 1, Len(from)) = from
         THEN to \o replace(SubSeq(s, Len(from) + 1, Len(s)), from, to)
    ELSE <<Head(s)>> \o replace(Tail(s), from, to)

\* The connection URLs tried.
Urls ==
    {<<"s", "q", "l", "i", "t", "e", ":", "a", ".", "d", "b">>,
     <<"p", "o", "s", "t", "g", "r", "e", "s", ":", "/", "/", "u", "@", "h", "/", "d">>,
     <<"p", "o", "s", "t", "g", "r", "e", "s", ":", "/", "/", "d", "@", "h", "/", "d">>,
     <<"p", "o", "s", "t", "g", "r", "e", "s", ":", "/", "/", "u", "@", "h", "/">>,
     <<"p", "o", "s", "t", "g", "r", "e", "s", "q", "l", ":", "/", "/", "u", "@", "h", "/", "d">>,
     <<"m", "y", "s", "q", "l", ":", "/", "/", "u", "@", "h", "/", "d">>,
     <<"S", "Q", "L", "I", "T", "E", ":", "a", ".", "d", "b">>,
     <<"s", "q", "l", "i", "t", "e">>,
     << >>}

\* Position of the last '/' of the URL, 0 if it has none.
last_slash(url) ==
    IF \E i \in 1..Len(url) : url[i] = "/"
    THEN Max({i \in 1..Len(url) : url[i] = "/"})
    ELSE 0

\* PgConnectOptions::get_database: the path of the URL, None if it is empty.
get_database(url) ==
    IF last_slash(url) = Len(url) THEN None
    ELSE Some(SubSeq(url, last_slash(url) + 1, Len(url)))

\* The server the URL names: the URL without its database name.
server_of(url) == SubSeq(url, 1, last_slash(url))

MaintenanceDb == <<"p", "o", "s", "t", "g", "r", "e", "s">>

\* What a construction returns: the error kind, the engine the URL selected,
\* the statements it executed in order, and the database it leaves.
Construction(kind, selected, statements, db) ==
    [kind |-> kind, selected |-> selected, statements |-> statements, db |-> db]

\* SQLiteDiaryDB::create_schema: one script, every statement IF NOT EXISTS.
sqlite_create_schema ==
    <<"connect", "CREATE TABLE IF NOT EXISTS entries",
      "CREATE TRIGGER IF NOT EXISTS update_entries_updated_at">>

\* Mutant: the schema script runs on every construction.
SQLiteDiaryDB_new_always_schema(url, db) ==
    Construction("Ok", "sqlite",
                 (IF db.exists THEN << >> ELSE <<"create_database">>) \o sqlite_create_schema,
                 [exists |-> TRUE, objects |-> db.objects \cup SchemaObjects("sqlite")])

\* SQLiteDiaryDB::new: creation and schema only when the database is missing.
SQLiteDiaryDB_new(url, db) ==
    IF ~db.exists
    THEN Construction("Ok", "sqlite", <<"create_database">> \o sqlite_create_schema,
                      [exists |-> TRUE, objects |-> db.objects \cup SchemaObjects("sqlite")])
    ELSE Construction("Ok", "sqlite", <<"connect">>, db)

\* PostgresDiaryDB::create_schema: the statements in the order they execute.
postgres_create_schema ==
    <<"SET TIME ZONE", "DROP TRIGGER IF EXISTS update_entries_updated_at",
      "DROP FUNCTION IF EXISTS update_updated_at_column",
      "CREATE TABLE IF NOT EXISTS entries",
      "CREATE OR REPLACE FUNCTION update_updated_at_column",
      "CREATE TRIGGER update_entries_updated_at">>

\* The schema objects after postgres_create_schema.
postgres_schema_after(objects) ==
    (((objects \ {"update_entries_updated_at"}) \ {"update_updated_at_column"})
        \cup {"entries"}) \cup {"update_updated_at_column"} \cup {"update_entries_updated_at"}

\* db_url.replace(db_name, "postgres")
postgres_url(url, db_name) == replace(url, db_name, MaintenanceDb)

\* PostgresDiaryDB::new. The server listens where the URL says; accepts tells
\* whether it also lets in a maintenance URL that names another user or host.
PostgresDiaryDB_new(url, db, accepts) ==
    LET db_name == get_database(url)
    IN IF db_name = None
       THEN Construction("Database name not specified in URL", "postgres", << >>, db)
       ELSE IF postgres_url(url, db_name[1]) # server_of(url) \o MaintenanceDb /\ ~accepts
            THEN Construction("Failed to connect to postgres database", "postgres",
                              <<"connect postgres">>, db)
       ELSE Construction("Ok", "postgres",
                <<"connect postgres", "SELECT TRUE FROM pg_database">>
                \o (IF db.exists THEN << >> ELSE <<"CREATE DATABASE">>)
                \o <<"connect">> \o postgres_create_schema,
                [exists |-> TRUE, objects |-> postgres_schema_after(db.objects)])

\* Mutant: the scheme is matched without its colon.
DiaryDB_new_prefix(url, db, accepts) ==
    IF starts_with(url, <<"s", "q", "l", "i", "t", "e">>) THEN SQLiteDiaryDB_new(url, db)
    ELSE IF starts_with(url, <<"p", "o", "s", "t", "g", "r", "e", "s">>) THEN PostgresDiaryDB_new(url, db, accepts)
    ELSE Construction("Unsupported database URL", "none", << >>, db)

\* DiaryDB::new
DiaryDB_new(url, db, accepts) ==
    IF starts_with(url, <<"s", "q", "l", "i", "t", "e", ":">>) THEN SQLiteDiaryDB_new(url, db)
    ELSE IF starts_with(url, <<"p", "o", "s", "t", "g", "r", "e", "s", ":">>) THEN PostgresDiaryDB_new(url, db, accepts)
    ELSE Construction("Unsupported database URL", "none", << >>, db)

\* The target of the URL before the program starts: no database, an empty
\* database, or a database a previous run left with its schema and rows.
NewTargets(eng) ==
    {[db |-> [exists |-> FALSE, objects |-> {}], tbl |-> {}, seq |-> 0, t |-> 0],
     [db |-> [exists |-> TRUE, objects |-> {}], tbl |-> {}, seq |-> 0, t |-> 0]}
    \cup (IF eng = "none" THEN {}
          ELSE {[db |-> Constructed(eng), tbl |-> st.tbl, seq |-> st.seq, t |-> st.t] :
                    st \in QStores(eng)})

InitNew ==
    /\ engine = "none"
    /\ \E url \in Urls :
          /\ last = [op |-> "config", url |-> url]
          /\ \E st \in NewTargets(DiaryDB_new(url, [exists |-> FALSE, objects |-> {}],
                                              TRUE).selected) :
                database = st.db /\ entries = st.tbl /\ entries_id_seq = st.seq /\ now = st.t
    /\ created = << >>
    /\ peer = None

New(accepts) ==
    /\ last.op = "config"
    /\ LET r == DiaryDB_new(last.url, database, accepts)
       IN /\ last' = [op |-> "new", url |-> last.url, kind |-> r.kind,
                      selected |-> r.selected, statements |-> r.statements,
                      fresh |-> ~database.exists]
          /\ engine' = IF r.kind = "Ok" THEN r.selected ELSE "none"
          /\ database' = r.db
    /\ UNCHANGED <<entries, entries_id_seq, now, created, peer>>

\* The first read_entries of the constructed engine, with no argument given.
FirstReadEntries ==
    /\ last.op = "new" /\ last.kind = "Ok"
    /\ LET r == IF "entries" \in database.objects
                THEN read_entries(engine, entries, None, None, None, None, None, TRUE)
                ELSE QueryResult("Persistence", << >>, None)
       IN last' = [op |-> "read_many", fresh |-> last.fresh, kind |-> r.kind, rows |-> r.rows]
    /\ UNCHANGED <<engine, entries, entries_id_seq, now, created, database, peer>>

\* The first create_entry of the constructed engine.
FirstCreateEntry(content, pinned) ==
    /\ last.op = "new" /\ last.kind = "Ok"
    /\ now' = now + 1
    /\ IF "entries" \in database.objects
       THEN LET r == create_entry(engine, entries, entries_id_seq, content, pinned, now')
            IN /\ entries' = r.tbl
               /\ entries_id_seq' = r.seq
               /\ last' = [op |-> "create", fresh |-> last.fresh, kind |-> r.res.kind,
                           entry |-> r.res.entry]
       ELSE /\ last' = [op |-> "create", fresh |-> last.fresh, kind |-> "Persistence",
                        entry |-> None]
            /\ UNCHANGED <<entries, entries_id_seq>>
    /\ UNCHANGED <<engine, created, database, peer>>

NextNew ==
    \/ \E accepts \in BOOLEAN : New(accepts)
    \/ FirstReadEntries
    \/ \E content \in Contents, pinned \in BOOLEAN : FirstCreateEntry(content, pinned)

SpecNew == InitNew /\ [][NextNew]_vars

----------------------------------------------------------------------------
\* Claims about construction, on the steps of SpecNew.

Constructs == last.op = "config" /\ last'.op = "new"
Executed(statements) == {statements[i] : i \in 1..Len(statements)}
CreateDatabaseStatements == {"create_database", "CREATE DATABASE"}
SchemaStatements ==
    {"CREATE TABLE IF NOT EXISTS entries",
     "CREATE TRIGGER IF NOT EXISTS update_entries_updated_at",
     "DROP TRIGGER IF EXISTS update_entries_updated_at",
     "DROP FUNCTION IF EXISTS update_updated_at_column",
     "CREATE OR REPLACE FUNCTION update_updated_at_column",
     "CREATE TRIGGER update_entries_updated_at"}

\* C16: DiaryDB::new selects the SQLite engine for a URL starting with
\* 'sqlite:' and the Postgres engine for a URL starting with 'postgres:'; for
\* every other URL it fails with "Unsupported database URL" and constructs no
\* engine, opens no connection and creates no database.
C16_UrlSelectsEngine ==
    [][Constructs =>
        /\ starts_with(last.url, <<"s", "q", "l", "i", "t", "e", ":">>) => last'.selected = "sqlite"
        /\ starts_with(last.url, <<"p", "o", "s", "t", "g", "r", "e", "s", ":">>) => last'.selected = "postgres"
        /\ (~starts_with(last.url, <<"s", "q", "l", "i", "t", "e", ":">>) /\ ~starts_with(last.url, <<"p", "o", "s", "t", "g", "r", "e", "s", ":">>)) =>
              /\ last'.kind = "Unsupported database URL"
              /\ last'.selected = "none" /\ engine' = "none"
              /\ last'.statements = << >>
              /\ database' = database /\ entries' = entries]_vars

C16_Witness ==
    /\ last.op = "new" /\ last.kind = "Unsupported database URL"
    /\ last.url = <<"p", "o", "s", "t", "g", "r", "e", "s", "q", "l", ":", "/", "/", "u", "@", "h", "/", "d">>
    /\ ~database.exists

\* C17 as stated: on both engines, construction on an existing database
\* creates no database, executes no statement of the schema script and leaves
\* schema and rows unchanged.
C17_ExistingDatabaseUntouched ==
    [][(Constructs /\ database.exists) =>
        /\ Executed(last'.statements) \cap CreateDatabaseStatements = {}
        /\ Executed(last'.statements) \cap SchemaStatements = {}
        /\ database' = database /\ entries' = entries]_vars

\* C17 amended: construction on an existing database creates no database and
\* leaves the rows unchanged on both engines. SQLite only connects and leaves
\* the schema unchanged. Postgres, once connected to the target, executes the
\* whole schema script, which leaves the complete schema; a Postgres
\* construction that fails executes no schema statement.
C17_ExistingDatabaseSchemaRerunOnPostgres ==
    [][(Constructs /\ database.exists) =>
        /\ Executed(last'.statements) \cap CreateDatabaseStatements = {}
        /\ entries' = entries
        /\ last'.selected = "sqlite" =>
              last'.statements = <<"connect">> /\ database' = database
        /\ (last'.selected = "postgres" /\ last'.kind = "Ok") =>
              /\ \A i \in 1..Len(postgres_create_schema) :
                    postgres_create_schema[i] \in Executed(last'.statements)
              /\ database' = [exists |-> TRUE,
                              objects |-> database.objects \cup SchemaObjects("postgres")]
        /\ (last'.selected = "postgres" /\ last'.kind # "Ok") =>
              /\ Executed(last'.statements) \cap SchemaStatements = {}
              /\ database' = database]_vars

C17_Witness ==
    /\ last.op = "new" /\ last.kind = "Ok" /\ last.selected = "postgres"
    /\ ~last.fresh /\ entries # {}
    /\ "DROP TRIGGER IF EXISTS update_entries_updated_at" \in Executed(last.statements)

\* The URL names a database of a supported engine.
NamesTarget(url) ==
    \/ starts_with(url, <<"s", "q", "l", "i", "t", "e", ":">>)
    \/ starts_with(url, <<"p", "o", "s", "t", "g", "r", "e", "s", ":">>) /\ get_database(url) # None

\* C18: construction against a fresh target with no existing database
\* succeeds and leaves an empty, queryable entries table: the first
\* read_many returns the empty sequence without error and the first create
\* succeeds.
C18_FreshTargetConstructs ==
    [][/\ (Constructs /\ ~database.exists /\ NamesTarget(last.url)) =>
              /\ last'.kind = "Ok"
              /\ "entries" \in database'.objects
              /\ entries' = {}
       /\ (last.op = "new" /\ last.fresh /\ last'.op = "read_many") =>
              last'.kind = "Ok" /\ last'.rows = << >>
       /\ (last.op = "new" /\ last.fresh /\ last'.op = "create") =>
              last'.kind = "Ok" /\ last'.entry # None]_vars

----------------------------------------------------------------------------
\* The two engines side by side: the SQLite store in entries, entries_id_seq
\* and last, the Postgres store in peer, both given the same call at the same
\* time.

PeerStore(tbl, seq, l) == [entries |-> tbl, seq |-> seq, last |-> l]

InitPair ==
    /\ engine = "sqlite"
    /\ entries = {}
    /\ entries_id_seq = 0
    /\ now = 0
    /\ last = Call("new", None, None, None, [kind |-> "Ok", entry |-> None])
    /\ created = << >>
    /\ database = Constructed("sqlite")
    /\ peer = PeerStore({}, 0, Call("new", None, None, None, [kind |-> "Ok", entry |-> None]))

PairCreateEntry(content, pinned, d) ==
    /\ Elapse(d)
    /\ LET s == create_entry("sqlite", entries, entries_id_seq, content, pinned, now')
           g == create_entry("postgres", peer.entries, peer.seq, content, pinned, now')
       IN /\ s.res.entry[1].id <= MaxId /\ g.res.entry[1].id <= MaxId
          /\ entries' = s.tbl
          /\ entries_id_seq' = s.seq
          /\ last' = Call("create", None, Some(content), Some(pinned), s.res)
          /\ peer' = PeerStore(g.tbl, g.seq,
                               Call("create", None, Some(content), Some(pinned), g.res))
    /\ UNCHANGED <<engine, created, database>>

PairReadEntry(id, d) ==
    /\ Elapse(d)
    /\ last' = Call("read_one", Some(id), None, None, read_entry(entries, id))
    /\ peer' = [peer EXCEPT !.last = Call("read_one", Some(id), None, None,
                                          read_entry(peer.entries, id))]
    /\ UNCHANGED <<engine, entries, entries_id_seq, created, database>>

PairCheckIfEntryExists(id, d) ==
    /\ Elapse(d)
    /\ last' = Call("exists", Some(id), None, None,
                    [kind |-> "Ok", entry |-> Some(check_if_entry_exists(entries, id))])
    /\ peer' = [peer EXCEPT !.last =
                    Call("exists", Some(id), None, None,
                         [kind |-> "Ok",
                          entry |-> Some(check_if_entry_exists(peer.entries, id))])]
    /\ UNCHANGED <<engine, entries, entries_id_seq, created, database>>

PairUpdateEntry(id, content, pinned, d) ==
    /\ Elapse(d)
    /\ LET s == update_entry("sqlite", entries, id, content, pinned, now')
           g == update_entry("postgres", peer.entries, id, content, pinned, now')
       IN /\ entries' = s.tbl
          /\ last' = Call("update", Some(id), content, pinned, s.res)
          /\ peer' = PeerStore(g.tbl, peer.seq, Call("update", Some(id), content, pinned, g.res))
    /\ UNCHANGED <<engine, entries_id_seq, created, database>>

PairDeleteEntry(id, d) ==
    /\ Elapse(d)
    /\ LET s == delete_entry(entries, id)
           g == delete_entry(peer.entries, id)
       IN /\ entries' = s.tbl
          /\ last' = Call("delete", Some(id), None, None, s.res)
          /\ peer' = PeerStore(g.tbl, peer.seq, Call("delete", Some(id), None, None, g.res))
    /\ UNCHANGED <<engine, entries_id_seq, created, database>>

\* read_entries of the given page and sort, with no per_page and no filter.
PairReadEntries(page, sort, d) ==
    /\ Elapse(d)
    /\ LET s == read_entries("sqlite", entries, page, None, sort, None, None, TRUE)
           g == read_entries("postgres", peer.entries, page, None, sort, None, None, TRUE)
       IN /\ last' = [op |-> "read_many", kind |-> s.kind, rows |-> s.rows]
          /\ peer' = [peer EXCEPT !.last = [op |-> "read_many", kind |-> g.kind,
                                            rows |-> g.rows]]
    /\ UNCHANGED <<engine, entries, entries_id_seq, created, database>>

NextPair ==
    \E d \in 1..MaxStep :
        \/ \E c \in Contents, p \in BOOLEAN : PairCreateEntry(c, p, d)
        \/ \E id \in ArgIds : PairReadEntry(id, d)
        \/ \E id \in ArgIds : PairCheckIfEntryExists(id, d)
        \/ \E id \in ArgIds, c \in OptionOf(Contents), p \in OptionOf(BOOLEAN) :
              PairUpdateEntry(id, c, p, d)
        \/ \E id \in ArgIds : PairDeleteEntry(id, d)
        \/ \E page \in OptionOf({0, 1}), sort \in OptionOf(SortOrder) :
              PairReadEntries(page, sort, d)

SpecPair == InitPair /\ [][NextPair]_vars

\* What the contract fixes of a returned entry: id, content, pinned and
\* whether updated_at is present.
Shape(e) ==
    [id |-> e.id, content |-> e.content, pinned |-> e.pinned,
     has_updated_at |-> e.updated_at # None]

\* The outcome of a call: success or error kind and the returned entries in order.
Outcome(l) ==
    IF l.op = "read_many"
    THEN [kind |-> l.kind, value |-> [i \in 1..Len(l.rows) |-> Shape(l.rows[i])]]
    ELSE IF l.op = "exists" \/ l.entry = None THEN [kind |-> l.kind, value |-> l.entry]
    ELSE [kind |-> l.kind, value |-> Some(Shape(l.entry[1]))]

\* C19: for every sequence of create, read_one, read_many, exists, update and
\* delete calls applied to two initially empty stores, the SQLite engine and
\* the Postgres engine return the same outcome at every step: same success or
\* error kind, same ids, content and pinned values, same presence of
\* updated_at, same row order.
C19_EnginesAgree == Outcome(last) = Outcome(peer.last)

----------------------------------------------------------------------------
\* Further claims about the calls of one engine, on the steps of Spec.

\* C21: on Postgres a successful update changes updated_at if and only if it
\* changes a column value of the row, so an update whose supplied content and
\* pinned equal the current values leaves updated_at as it was (absent if the
\* row was never changed); on SQLite every successful update sets updated_at.
C21_UpdatedAtOnChange ==
    [][Returned_("update") =>
        LET id == last'.id[1]
            old == RowOf(entries, id)
            new == RowOf(entries', id)
        IN IF engine = "postgres"
           THEN (new.updated_at # old.updated_at)
                    <=> (new.content # old.content \/ new.pinned # old.pinned)
           ELSE new.updated_at = Some(datetime_now(now'))]_vars

C21_Witness ==
    /\ Returned("update") /\ engine = "postgres"
    /\ last.content # None /\ last.pinned # None
    /\ RowOf(entries, last.id[1]).updated_at = None

\* C24: read_one, read_many and exists never change the store, and every
\* operation that returns an error (NotFound, InvalidArgument) leaves every
\* row of the store, updated_at included, as it was; on both engines.
C24_ReadsAndErrorsChangeNothing ==
    [][/\ (\/ last'.op \in {"read_one", "read_many", "exists"}
           \/ last'.kind \in {"NotFound", "InvalidArgument"})
          => (entries' = entries /\ entries_id_seq' = entries_id_seq)
       /\ (\/ peer'.last.op \in {"read_one", "read_many", "exists"}
           \/ peer'.last.kind \in {"NotFound", "InvalidArgument"})
          => (peer'.entries = peer.entries /\ peer'.seq = peer.seq)]_vars

C24_Witness ==
    /\ last.op = "update" /\ last.kind = "InvalidArgument"
    /\ peer.last.kind = "InvalidArgument"
    /\ \E r \in entries : r.id = last.id[1]
    /\ \E r \in peer.entries : r.id = last.id[1] /\ r.updated_at # None

\* The ids of the rows of a table.
Ids(tbl) == {r.id : r \in tbl}

\* C25: exists(id) is true exactly when the most recent create that returned
\* id has not been followed by a successful delete(id); live ids are pairwise
\* distinct; the number of rows is the number of successful creates minus the
\* number of successful deletes. Stated step by step from the empty store: a
\* successful create adds the returned id and one row, a successful delete
\* removes its id and one row, and no other call changes the ids or the count.
C25_ExistsTracksCreatesAndDeletes ==
    [][/\ Returned_("create") =>
              /\ check_if_entry_exists(entries', last'.entry[1].id)
              /\ last'.entry[1].id \notin Ids(entries)
              /\ Ids(entries') = Ids(entries) \cup {last'.entry[1].id}
              /\ Cardinality(entries') = Cardinality(entries) + 1
       /\ Returned_("delete") =>
              /\ ~check_if_entry_exists(entries', last'.id[1])
              /\ last'.id[1] \in Ids(entries)
              /\ Ids(entries') = Ids(entries) \ {last'.id[1]}
              /\ Cardinality(entries') = Cardinality(entries) - 1
       /\ (~Returned_("create") /\ ~Returned_("delete")) =>
              /\ Ids(entries') = Ids(entries)
              /\ Cardinality(entries') = Cardinality(entries)
       /\ \A a, b \in entries' : a.id = b.id => a = b]_vars

C25_Witness ==
    /\ Returned("delete")
    /\ Cardinality(entries) = 1
    /\ Cardinality(DOMAIN created) = 2
    /\ ~check_if_entry_exists(entries, last.id[1])

----------------------------------------------------------------------------
\* The process entry point, main of main.rs, with the SQLiteDiaryDB of that
\* file: every call is unwrapped, so a failed call panics.

MainReadId == 1
MainUpdateId == 10
MainUpdateContent == <<"U", "p", "d", "a", "t", "e", " ", "f", "o", "r", " ", "i", "d", " ", "1", "0">>

\* update_entry of main.rs: the field check, then UPDATE ... RETURNING * with
\* fetch_one, which fails with RowNotFound when no row has the id.
main_update_entry(tbl, id, content, pinned, t) ==
    IF content = None /\ pinned = None
    THEN [res |-> Err("InvalidArgument"), tbl |-> tbl]
    ELSE IF ~(\E r \in tbl : r.id = id) THEN [res |-> Err("NotFound"), tbl |-> tbl]
    ELSE sqlite_update(tbl, id, content, pinned, t)

\* The rows a previous run may have left under the ids main uses.
MainRows(id) ==
    {[id |-> id, content |-> c, created_at |-> 0, updated_at |-> Some(0), pinned |-> p] :
        c \in Contents, p \in BOOLEAN}

MainTables ==
    {{}} \cup {{a} : a \in MainRows(MainReadId)} \cup {{b} : b \in MainRows(MainUpdateId)}
    \cup {{a, b} : a \in MainRows(MainReadId), b \in MainRows(MainUpdateId)}

\* Where main is, and the calls it has made on the engine.
Main(pc, calls) == [op |-> "main", pc |-> pc, calls |-> calls]

InitMain ==
    /\ engine = "none"
    /\ \/ database = [exists |-> FALSE, objects |-> {}] /\ entries = {}
       \/ database = Constructed("sqlite") /\ entries \in MainTables
    /\ entries_id_seq = 0
    /\ now = 0
    /\ last = Main("start", << >>)
    /\ created = << >>
    /\ peer = None

\* SQLiteDiaryDB::new(&db_url).await.unwrap(); io_ok tells whether the file
\* could be created or opened.
MainNew(io_ok) ==
    /\ last.pc = "start"
    /\ IF io_ok
       THEN /\ database' = [exists |-> TRUE,
                            objects |-> IF database.exists THEN database.objects
                                        ELSE SchemaObjects("sqlite")]
            /\ engine' = "sqlite"
            /\ last' = Main("constructed", <<"new">>)
       ELSE /\ last' = Main("panicked", <<"new">>)
            /\ UNCHANGED <<database, engine>>
    /\ UNCHANGED <<entries, entries_id_seq, now, created, peer>>

\* db.read_entry(1).await.unwrap()
MainReadEntry ==
    /\ last.pc = "constructed"
    /\ last' = Main(IF read_entry(entries, MainReadId).kind = "Ok" THEN "read" ELSE "panicked",
                    Append(last.calls, "read_entry"))
    /\ UNCHANGED <<engine, entries, entries_id_seq, now, created, database, peer>>

\* db.update_entry(10, Some(..), Some(true)).await.unwrap()
MainUpdateEntry ==
    /\ last.pc = "read"
    /\ now' = now + 1
    /\ LET r == main_update_entry(entries, MainUpdateId, Some(MainUpdateContent),
                                  Some(TRUE), now')
       IN /\ entries' = r.tbl
          /\ last' = Main(IF r.res.kind = "Ok" THEN "updated" ELSE "panicked",
                          Append(last.calls, "update_entry"))
    /\ UNCHANGED <<engine, entries_id_seq, created, database, peer>>

\* db.close().await
MainClose ==
    /\ last.pc = "updated"
    /\ last' = Main("closed", Append(last.calls, "close"))
    /\ UNCHANGED <<engine, entries, entries_id_seq, now, created, database, peer>>

\* Ok(())
MainReturn ==
    /\ last.pc = "closed"
    /\ last' = Main("exited", last.calls)
    /\ UNCHANGED <<engine, entries, entries_id_seq, now, created, database, peer>>

NextMain ==
    \/ \E io_ok \in BOOLEAN : MainNew(io_ok)
    \/ MainReadEntry
    \/ MainUpdateEntry
    \/ MainClose
    \/ MainReturn

SpecMain == InitMain /\ [][NextMain]_vars

\* C22: on every execution path of main, the paths where construction or an
\* operation fails included, close is called exactly once before the process
\* exits, and no operation is issued after close.
C22_CloseOnceOnEveryPath ==
    last.pc \in {"exited", "panicked"} =>
        /\ Cardinality({i \in 1..Len(last.calls) : last.calls[i] = "close"}) = 1
        /\ last.calls[Len(last.calls)] = "close"

----------------------------------------------------------------------------
\* Reading page after page of an unchanged store with the same per_page, sort
\* and filters.

QPages == 3        \* number of pages read, from page 1

\* The arguments kept from page to page and the results of the pages read so far.
Pages(per_page, sort, pinned, substring, overflow_checks, results) ==
    [op |-> "pages", per_page |-> per_page, sort |-> sort, pinned |-> pinned,
     substring |-> substring, overflow_checks |-> overflow_checks, results |-> results]

InitPages ==
    /\ engine \in Engines
    /\ \E st \in QStores(engine) :
          entries = st.tbl /\ entries_id_seq = st.seq /\ now = st.t
    /\ \E per_page \in {1, 2, MaxI64}, sort \in OptionOf(SortOrder),
          pinned \in OptionOf(BOOLEAN), substring \in OptionOf({<<"e", "N">>}),
          overflow_checks \in BOOLEAN :
          last = Pages(per_page, sort, pinned, substring, overflow_checks, << >>)
    /\ created = << >>
    /\ database = Constructed(engine)
    /\ peer = None

\* read_entries of the next page.
ReadNextPage ==
    /\ Len(last.results) < QPages
    /\ LET r == read_entries(engine, entries, Some(Len(last.results) + 1),
                             Some(last.per_page), last.sort, last.pinned, last.substring,
                             last.overflow_checks)
       IN last' = [last EXCEPT !.results = Append(@, [kind |-> r.kind, rows |-> r.rows])]
    /\ UNCHANGED <<engine, entries, entries_id_seq, now, created, database, peer>>

NextPages == ReadNextPage

SpecPages == InitPages /\ [][NextPages]_vars

RECURSIVE Concat(_)
Concat(results) ==
    IF results = << >> THEN << >> ELSE Head(results).rows \o Concat(Tail(results))

\* C23: on an unchanged store, for fixed per_page, sort and filters, the
\* results of read_many for page 1, 2, 3, ... concatenated in order are the
\* filtered, sorted sequence: every matching row is on exactly one page, with
\* no duplicate and no gap, and every page after the first empty page is empty.
C23_PagesPartitionTheSequence ==
    Len(last.results) = QPages =>
        LET full == order_by({r \in entries : where_clause(r, last.pinned, last.substring)},
                             IF last.sort = None THEN "DESC" ELSE last.sort[1])
        IN /\ \A i \in 1..QPages : last.results[i].kind = "Ok"
           /\ Concat(last.results) = SubSeq(full, 1, Min(Len(full), QPages * last.per_page))
           /\ \A i, j \in 1..QPages :
                 (i < j /\ last.results[i].rows = << >>) => last.results[j].rows = << >>

----------------------------------------------------------------------------
\* Two processes on one store, each making one update_entry or delete_entry
\* call of the same id. A call is two statements, the existence check and the
\* UPDATE or DELETE, with an await between them and no transaction around them.

Procs == {1, 2}

\* The call of a process, how far it is, and what it returned.
ProcCall(op, content, pinned, pc, kind) ==
    [op |-> op, content |-> content, pinned |-> pinned, pc |-> pc, kind |-> kind]

RaceCalls ==
    {ProcCall("delete", None, None, "start", "None")}
    \cup {ProcCall("update", c, p, "start", "None") :
            c \in OptionOf(Contents), p \in OptionOf(BOOLEAN)}

InitRace ==
    /\ engine \in Engines
    /\ \E st \in QStores(engine) :
          entries = st.tbl /\ entries_id_seq = st.seq /\ now = st.t
    /\ \E id \in ArgIds, calls \in [Procs -> RaceCalls] :
          last = [op |-> "race", id |-> id, existed |-> check_if_entry_exists(entries, id),
                  procs |-> calls]
    /\ created = << >>
    /\ database = Constructed(engine)
    /\ peer = None

Proceed(p, pc, kind) == last' = [last EXCEPT !.procs[p].pc = pc, !.procs[p].kind = kind]

\* check_if_entry_exists and the early returns of update_entry and delete_entry.
RaceCheck(p) ==
    /\ last.procs[p].pc = "start"
    /\ IF ~check_if_entry_exists(entries, last.id) THEN Proceed(p, "done", "NotFound")
       ELSE IF /\ last.procs[p].op = "update"
               /\ last.procs[p].content = None /\ last.procs[p].pinned = None
            THEN Proceed(p, "done", "InvalidArgument")
       ELSE Proceed(p, "checked", "None")
    /\ UNCHANGED <<engine, entries, entries_id_seq, now, created, database, peer>>

\* DELETE FROM entries WHERE id = $1, execute: succeeds whatever the number of
\* rows it affected.
RaceDelete(p) ==
    /\ last.procs[p].pc = "checked" /\ last.procs[p].op = "delete"
    /\ entries' = {r \in entries : r.id # last.id}
    /\ Proceed(p, "done", "Ok")
    /\ UNCHANGED <<engine, entries_id_seq, now, created, database, peer>>

\* UPDATE ... WHERE id = $1 RETURNING *, fetch_one: RowNotFound, reported as
\* "Failed to update an entry", when the row is gone.
RaceUpdate(p) ==
    /\ last.procs[p].pc = "checked" /\ last.procs[p].op = "update"
    /\ now' = now + 1
    /\ IF check_if_entry_exists(entries, last.id)
       THEN /\ entries' = (IF engine = "sqlite"
                           THEN sqlite_update(entries, last.id, last.procs[p].content,
                                              last.procs[p].pinned, now')
                           ELSE postgres_update(entries, last.id, last.procs[p].content,
                                                last.procs[p].pinned, now')).tbl
            /\ Proceed(p, "done", "Ok")
       ELSE /\ entries' = entries
            /\ Proceed(p, "done", "Persistence")
    /\ UNCHANGED <<engine, entries_id_seq, created, database, peer>>

NextRace == \E p \in Procs : RaceCheck(p) \/ RaceDelete(p) \/ RaceUpdate(p)

SpecRace == InitRace /\ [][NextRace]_vars

\* C26: the existence check and the following statement act atomically with
\* respect to other processes: of two processes calling delete(id) on the same
\* existing id at most one returns success, and an update(id, ...) interleaved
\* with a delete(id) succeeds or fails with NotFound, never with another error.
C26_CheckAndStatementAtomic ==
    (\A p \in Procs : last.procs[p].pc = "done") =>
        /\ (last.existed /\ \A p \in Procs : last.procs[p].op = "delete") =>
              Cardinality({p \in Procs : last.procs[p].kind = "Ok"}) <= 1
        /\ \A p, q \in Procs :
              (/\ last.procs[p].op = "update" /\ last.procs[q].op = "delete"
               /\ (last.procs[p].content # None \/ last.procs[p].pinned # None))
              => last.procs[p].kind \in {"Ok", "NotFound"}

====
